---------------------------- MODULE Spec2Model ----------------------------
(***************************************************************************)
(* Model of the PCF8575 16-bit I/O expander driver                         *)
(* (devices/pcf8575/pcf8575.go).                                            *)
(*                                                                         *)
(* The driver keeps two shadow bytes (lowPins, highPins) and talks to the  *)
(* chip through conn.Conn.Tx(w, r).  The bus and the chip are the          *)
(* environment: a transaction either succeeds or fails with one of         *)
(* BusErrors, and a successful read delivers one of ReadData.              *)
(***************************************************************************)
EXTENDS Integers, Sequences, FiniteSets, TLC

(***************************************************************************)
(* Bounds and input sets.                                                  *)
(***************************************************************************)
\* Number of bus transactions a behaviour may issue in total.
MaxTx == 4

\* Pin indexes the callers pass: both range edges of each port, the pins of
\* the documented examples, and one value on each side of the valid range.
PinInputs == {-1, 0, 1, 7, 8, 10, 15, 16}

\* Errors the bus may report for a transaction.
BusErrors == {"NACK", "EIO"}

\* Port states [lowPortState, highPortState] a successful read may deliver.
ReadData == {<<1, 128>>, <<255, 251>>, <<0, 0>>}

\* Valid pin indexes (Dev.WriteOutput / ReadOutput / ReadInput range checks).
Pins == 0..15

(***************************************************************************)
(* Go byte arithmetic.                                                     *)
(***************************************************************************)
Byte == 0..255

\* bit k (0..7) of byte v
BitOf(v, k) == (v \div (2^k)) % 2

\* a & b on bytes
AndByte(a, b) ==
    LET f[k \in 0..8] ==
            IF k = 8 THEN 0
            ELSE (IF BitOf(a, k) = 1 /\ BitOf(b, k) = 1 THEN 2^k ELSE 0) + f[k+1]
    IN  f[0]

\* a | b on bytes
OrByte(a, b) ==
    LET f[k \in 0..8] ==
            IF k = 8 THEN 0
            ELSE (IF BitOf(a, k) = 1 \/ BitOf(b, k) = 1 THEN 2^k ELSE 0) + f[k+1]
    IN  f[0]

\* ^a on a byte
NotByte(a) == 255 - a

(***************************************************************************)
(* Bit helpers (pcf8575.go:97-111).                                        *)
(***************************************************************************)
\* Variant of getMask: bits counted from 1 (1 << byte(index-1)).
getMask_OneBased(index) ==
    LET sh == (index - 1) % 256
    IN  IF sh < 8 THEN 2^sh ELSE 0

\* func getMask(index int) byte { return 1 << byte(index) }
\* byte(index) wraps modulo 256; a byte shifted by 8 or more is 0.
getMask(index) ==
    LET sh == index % 256
    IN  IF sh < 8 THEN 2^sh ELSE 0

\* func getBit(value byte, index int) bool
getBit(value, index) == AndByte(value, getMask(index)) > 0

\* Variant of setBit: adds or subtracts the mask instead of using | and &^.
setBit_Add(value, index, state) ==
    IF state
    THEN value + getMask(index)
    ELSE value - getMask(index)

\* Variant of setBit: assigns the mask instead of combining it with value.
setBit_Assign(value, index, state) ==
    IF state
    THEN getMask(index)
    ELSE NotByte(getMask(index))

\* func setBit(value byte, index int, state bool) byte
setBit(value, index, state) ==
    IF state
    THEN OrByte(value, getMask(index))
    ELSE AndByte(value, NotByte(getMask(index)))

(***************************************************************************)
(* Errors and bus transactions.                                            *)
(***************************************************************************)
NilErr == [kind |-> "nil", text |-> "", index |-> 0]

\* errors.New(fmt.Sprintf("PCF8575.<fn>: Pin index out of range (%d)", index))
RangeErr(fn, index) ==
    [kind |-> "range", text |-> fn, index |-> index]

\* an error reported by conn.Conn.Tx
BusErr(e) == [kind |-> "bus", text |-> e, index |-> 0]

\* outcomes the bus can give a transaction
TxOutcomes == {NilErr} \cup {BusErr(e) : e \in BusErrors}

\* One call d.c.Tx(w, r): w the bytes sent, r the read buffer after the call,
\* err what the bus reported.
Tx(w, r, err) == [w |-> w, r |-> r, err |-> err]

\* Variant of updateState: sends lowPins in both bytes.
updateState_LowTwice(lo, hi, e) == Tx(<<lo, lo>>, <<>>, e)

\* func (d *Dev) updateState() error: Tx([]byte{lowPins, highPins}, nil)
updateState(lo, hi, e) == Tx(<<lo, hi>>, <<>>, e)

\* Variant of readState: writes the all-ones pair in the same transaction.
readState_WritesFirst(e, data) ==
    Tx(<<255, 255>>, IF e = NilErr THEN data ELSE <<0, 0>>, e)

\* func (d *Dev) readState() ([]byte, error): s := {0,0}; Tx(nil, s)
readState(e, data) == Tx(<<>>, IF e = NilErr THEN data ELSE <<0, 0>>, e)


(***************************************************************************)
(* The handlers, as functions of the shadow bytes and of what the bus      *)
(* answers.  Each returns the shadow bytes after the call, the returned    *)
(* value/error, and the sequence of transactions the call issued.          *)
(***************************************************************************)
\* Variant of New: the initial updateState() is left out.
New_NoWrite(e) ==
    [handle |-> "dev", lo |-> 255, hi |-> 255, err |-> NilErr, txs |-> <<>>]

\* Variant of New: returns d, err instead of nil, err when updateState() fails.
New_KeepsHandle(e) ==
    LET tx == updateState(255, 255, e)
    IN  [handle |-> "dev", lo |-> 255, hi |-> 255, err |-> tx.err, txs |-> <<tx>>]

\* func New(i i2c.Bus, addr uint16) (*Dev, error)
\* handle "dev" is the returned *Dev, "nil" the nil pointer.
New(e) ==
    LET tx == updateState(255, 255, e)
    IN  [handle |-> IF tx.err # NilErr THEN "nil" ELSE "dev",
         lo |-> 255, hi |-> 255, err |-> tx.err, txs |-> <<tx>>]

\* Variant of Halt: reports that halting is not supported.
Halt_NotSupported == [kind |-> "halt", text |-> "not supported", index |-> 0]

\* func (d *Dev) Halt() error
Halt == NilErr

\* Variant of WriteOutput: transmits the latch pair before setting the bit.
WriteOutput_SendBeforeSet(lo, hi, index, state, e) ==
    IF index >= 0 /\ index < 8 THEN
        LET tx == updateState(lo, hi, e)
        IN  [lo |-> setBit(lo, index, state), hi |-> hi, err |-> tx.err, txs |-> <<tx>>]
    ELSE IF index >= 8 /\ index < 16 THEN
        LET tx == updateState(lo, hi, e)
        IN  [lo |-> lo, hi |-> setBit(hi, index - 8, state), err |-> tx.err, txs |-> <<tx>>]
    ELSE
        [lo |-> lo, hi |-> hi,
         err |-> RangeErr("PCF8575.WriteOutput", index), txs |-> <<>>]

\* Variant of WriteOutput: restores the latch pair when updateState() fails.
WriteOutput_Rollback(lo, hi, index, state, e) ==
    IF index >= 0 /\ index < 8 THEN
        LET lo2 == setBit(lo, index, state)
            tx  == updateState(lo2, hi, e)
        IN  [lo |-> IF tx.err # NilErr THEN lo ELSE lo2, hi |-> hi,
             err |-> tx.err, txs |-> <<tx>>]
    ELSE IF index >= 8 /\ index < 16 THEN
        LET hi2 == setBit(hi, index - 8, state)
            tx  == updateState(lo, hi2, e)
        IN  [lo |-> lo, hi |-> IF tx.err # NilErr THEN hi ELSE hi2,
             err |-> tx.err, txs |-> <<tx>>]
    ELSE
        [lo |-> lo, hi |-> hi,
         err |-> RangeErr("PCF8575.WriteOutput", index), txs |-> <<>>]

\* Variant of WriteOutput: skips updateState() when the bit already has the value.
WriteOutput_SkipUnchanged(lo, hi, index, state, e) ==
    IF index >= 0 /\ index < 8 THEN
        LET lo2 == setBit(lo, index, state)
            tx  == updateState(lo2, hi, e)
        IN  IF lo2 = lo
            THEN [lo |-> lo, hi |-> hi, err |-> NilErr, txs |-> <<>>]
            ELSE [lo |-> lo2, hi |-> hi, err |-> tx.err, txs |-> <<tx>>]
    ELSE IF index >= 8 /\ index < 16 THEN
        LET hi2 == setBit(hi, index - 8, state)
            tx  == updateState(lo, hi2, e)
        IN  IF hi2 = hi
            THEN [lo |-> lo, hi |-> hi, err |-> NilErr, txs |-> <<>>]
            ELSE [lo |-> lo, hi |-> hi2, err |-> tx.err, txs |-> <<tx>>]
    ELSE
        [lo |-> lo, hi |-> hi,
         err |-> RangeErr("PCF8575.WriteOutput", index), txs |-> <<>>]

\* Variant of WriteOutput: the upper range test is index <= 16.
WriteOutput_OffByOne(lo, hi, index, state, e) ==
    IF index >= 0 /\ index < 8 THEN
        LET lo2 == setBit(lo, index, state)
            tx  == updateState(lo2, hi, e)
        IN  [lo |-> lo2, hi |-> hi, err |-> tx.err, txs |-> <<tx>>]
    ELSE IF index >= 8 /\ index <= 16 THEN
        LET hi2 == setBit(hi, index - 8, state)
            tx  == updateState(lo, hi2, e)
        IN  [lo |-> lo, hi |-> hi2, err |-> tx.err, txs |-> <<tx>>]
    ELSE
        [lo |-> lo, hi |-> hi,
         err |-> RangeErr("PCF8575.WriteOutput", index), txs |-> <<>>]

\* func (d *Dev) WriteOutput(index int, state bool) error
WriteOutput(lo, hi, index, state, e) ==
    IF index >= 0 /\ index < 8 THEN
        LET lo2 == setBit(lo, index, state)
            tx  == updateState(lo2, hi, e)
        IN  [lo |-> lo2, hi |-> hi, err |-> tx.err, txs |-> <<tx>>]
    ELSE IF index >= 8 /\ index < 16 THEN
        LET hi2 == setBit(hi, index - 8, state)
            tx  == updateState(lo, hi2, e)
        IN  [lo |-> lo, hi |-> hi2, err |-> tx.err, txs |-> <<tx>>]
    ELSE
        [lo |-> lo, hi |-> hi,
         err |-> RangeErr("PCF8575.WriteOutput", index), txs |-> <<>>]

\* Variant of ReadOutput: pins 8..15 are read from lowPins.
ReadOutput_LowOnly(lo, hi, index) ==
    IF index >= 0 /\ index < 8 THEN
        [val |-> getBit(lo, index), err |-> NilErr]
    ELSE IF index >= 8 /\ index < 16 THEN
        [val |-> getBit(lo, index - 8), err |-> NilErr]
    ELSE
        [val |-> FALSE, err |-> RangeErr("PCF8575.ReadOutput", index)]

\* func (d *Dev) ReadOutput(index int) (bool, error)
ReadOutput(lo, hi, index) ==
    IF index >= 0 /\ index < 8 THEN
        [val |-> getBit(lo, index), err |-> NilErr]
    ELSE IF index >= 8 /\ index < 16 THEN
        [val |-> getBit(hi, index - 8), err |-> NilErr]
    ELSE
        [val |-> FALSE, err |-> RangeErr("PCF8575.ReadOutput", index)]

\* Variant of ReadInput: the two received bytes are taken in the wrong order.
ReadInput_Swapped(index, e, data) ==
    LET tx == readState(e, data)
        s  == tx.r
    IN  IF tx.err # NilErr THEN
            [val |-> FALSE, err |-> tx.err, txs |-> <<tx>>]
        ELSE IF index >= 0 /\ index < 8 THEN
            [val |-> getBit(s[2], index), err |-> NilErr, txs |-> <<tx>>]
        ELSE IF index >= 8 /\ index < 16 THEN
            [val |-> getBit(s[1], index - 8), err |-> NilErr, txs |-> <<tx>>]
        ELSE
            [val |-> FALSE, err |-> RangeErr("PCF8575.ReadInput", index),
             txs |-> <<tx>>]

\* Variant of ReadInput: readState() is tried a second time when it fails.
ReadInput_Retry(index, e, data) ==
    LET tx == readState(e, data)
        s  == tx.r
    IN  IF tx.err # NilErr THEN
            [val |-> FALSE, err |-> tx.err, txs |-> <<tx, tx>>]
        ELSE IF index >= 0 /\ index < 8 THEN
            [val |-> getBit(s[1], index), err |-> NilErr, txs |-> <<tx>>]
        ELSE IF index >= 8 /\ index < 16 THEN
            [val |-> getBit(s[2], index - 8), err |-> NilErr, txs |-> <<tx>>]
        ELSE
            [val |-> FALSE, err |-> RangeErr("PCF8575.ReadInput", index),
             txs |-> <<tx>>]

\* func (d *Dev) ReadInput(index int) (bool, error)
\* readState() runs first; the index is examined only after it succeeded.
ReadInput(index, e, data) ==
    LET tx == readState(e, data)
        s  == tx.r
    IN  IF tx.err # NilErr THEN
            [val |-> FALSE, err |-> tx.err, txs |-> <<tx>>]
        ELSE IF index >= 0 /\ index < 8 THEN
            [val |-> getBit(s[1], index), err |-> NilErr, txs |-> <<tx>>]
        ELSE IF index >= 8 /\ index < 16 THEN
            [val |-> getBit(s[2], index - 8), err |-> NilErr, txs |-> <<tx>>]
        ELSE
            [val |-> FALSE, err |-> RangeErr("PCF8575.ReadInput", index),
             txs |-> <<tx>>]

(***************************************************************************)
(* State.                                                                  *)
(***************************************************************************)
VARIABLES
    handle,     \* "none" before New, "dev" the *Dev New returned, "nil" if New failed
    newErr,     \* the error New returned to its caller
    lowPins,    \* Dev.lowPins:  shadow of pins P00-P07
    highPins,   \* Dev.highPins: shadow of pins P10-P17
    txCount,    \* bus: number of transactions issued so far
    sent,       \* bus: payload of the last write transaction issued
    accepted,   \* chip: payload of the last write transaction that succeeded
    sentErr,    \* bus: what the bus reported for the last write transaction issued
    conc,       \* unserialized callers inside WriteOutput (SpecConc)
    bits,       \* one application of the bit helpers (SpecBits)
    lastOp      \* the last call: its arguments, what it returned, the
                \* transactions it issued, and the shadow pair (pre)
                \* and the chip's latch (dev) before it

vars == <<handle, newErr, lowPins, highPins, txCount, sent, accepted, sentErr,
          conc, bits, lastOp>>

\* effect of a call's transactions on the bus and the chip
RECURSIVE SentAfter(_, _)
SentAfter(txs, s) ==
    IF txs = <<>> THEN s
    ELSE SentAfter(Tail(txs), IF Head(txs).w # <<>> THEN Head(txs).w ELSE s)

RECURSIVE SentErrAfter(_, _)
SentErrAfter(txs, x) ==
    IF txs = <<>> THEN x
    ELSE SentErrAfter(Tail(txs), IF Head(txs).w # <<>> THEN Head(txs).err ELSE x)

RECURSIVE AcceptedAfter(_, _)
AcceptedAfter(txs, a) ==
    IF txs = <<>> THEN a
    ELSE AcceptedAfter(Tail(txs),
            IF Head(txs).w # <<>> /\ Head(txs).err = NilErr THEN Head(txs).w ELSE a)

Bus(txs) ==
    /\ txCount' = txCount + Len(txs)
    /\ sent' = SentAfter(txs, sent)
    /\ accepted' = AcceptedAfter(txs, accepted)
    /\ sentErr' = SentErrAfter(txs, sentErr)

Call(op, index, state, val, err, txs) ==
    [op |-> op, index |-> index, state |-> state, val |-> val, err |-> err,
     txs |-> txs, pre |-> <<lowPins, highPins>>, dev |-> accepted]

\* The goroutines that may call WriteOutput on one *Dev without serializing.
Callers == {1, 2}

\* No concurrent caller is active.
ConcIdle ==
    [pc   |-> [p \in Callers |-> "idle"],
     arg  |-> [p \in Callers |-> [index |-> 0, state |-> FALSE]],
     tmp  |-> [p \in Callers |-> 0],
     plo  |-> [p \in Callers |-> 0],
     phi  |-> [p \in Callers |-> 0],
     err  |-> [p \in Callers |-> NilErr],
     overlap |-> FALSE]

\* The bit helpers are not being exercised.
BitsIdle == [pc |-> "idle", v |-> 0, i |-> 0, s |-> FALSE, out |-> 0]

\* Before construction there is no Dev; the chip is in its power-on state
\* (all outputs high) and nothing has been sent.
Init ==
    /\ handle = "none"
    /\ newErr = NilErr
    /\ lowPins = 0
    /\ highPins = 0
    /\ txCount = 0
    /\ sent = <<>>
    /\ accepted = <<255, 255>>
    /\ sentErr = NilErr
    /\ conc = ConcIdle
    /\ bits = BitsIdle
    /\ lastOp = [op |-> "none", index |-> 0, state |-> FALSE, val |-> FALSE,
                 err |-> NilErr, txs |-> <<>>, pre |-> <<0, 0>>,
                 dev |-> <<255, 255>>]

NewStep ==
    /\ handle = "none"
    /\ txCount < MaxTx
    /\ \E e \in TxOutcomes :
        LET r == New(e) IN
        /\ handle' = r.handle
        /\ newErr' = r.err
        /\ lowPins' = r.lo
        /\ highPins' = r.hi
        /\ Bus(r.txs)
        /\ lastOp' = Call("New", 0, FALSE, FALSE, r.err, r.txs)
    /\ UNCHANGED <<conc, bits>>

HaltStep ==
    /\ handle = "dev"
    /\ lastOp' = Call("Halt", 0, FALSE, FALSE, Halt, <<>>)
    /\ UNCHANGED <<handle, newErr, lowPins, highPins, txCount, sent, accepted, sentErr,
                   conc, bits>>

WriteOutputStep ==
    /\ handle = "dev"
    /\ txCount < MaxTx
    /\ \E index \in PinInputs, state \in BOOLEAN, e \in TxOutcomes :
        LET r == WriteOutput(lowPins, highPins, index, state, e) IN
        /\ lowPins' = r.lo
        /\ highPins' = r.hi
        /\ Bus(r.txs)
        /\ lastOp' = Call("WriteOutput", index, state, FALSE, r.err, r.txs)
    /\ UNCHANGED <<handle, newErr, conc, bits>>

ReadOutputStep ==
    /\ handle = "dev"
    /\ \E index \in PinInputs :
        LET r == ReadOutput(lowPins, highPins, index) IN
        lastOp' = Call("ReadOutput", index, FALSE, r.val, r.err, <<>>)
    /\ UNCHANGED <<handle, newErr, lowPins, highPins, txCount, sent, accepted, sentErr,
                   conc, bits>>

ReadInputStep ==
    /\ handle = "dev"
    /\ txCount < MaxTx
    /\ \E index \in PinInputs, e \in TxOutcomes, data \in ReadData :
        LET r == ReadInput(index, e, data) IN
        /\ Bus(r.txs)
        /\ lastOp' = Call("ReadInput", index, FALSE, r.val, r.err, r.txs)
    /\ UNCHANGED <<handle, newErr, lowPins, highPins, conc, bits>>

Next ==
    \/ NewStep
    \/ HaltStep
    \/ WriteOutputStep
    \/ ReadOutputStep
    \/ ReadInputStep

Spec == Init /\ [][Next]_vars

(***************************************************************************)
(* Unserialized callers.  Dev has no lock, so two goroutines may be inside *)
(* WriteOutput at once; each statement's memory accesses are separate      *)
(* steps: the load and the store of d.lowPins = setBit(d.lowPins, ...),    *)
(* the two loads of []byte{d.lowPins, d.highPins}, and the Tx call.        *)
(***************************************************************************)
\* Pins the concurrent callers command: two of one port, two of the other.
ConcPins == {0, 1, 8, 15}

\* The state right after a successful New, with each caller about to call
\* WriteOutput on a pin of its own.
InitConc ==
    /\ handle = "dev"
    /\ newErr = NilErr
    /\ lowPins = 255
    /\ highPins = 255
    /\ txCount = 1
    /\ sent = <<255, 255>>
    /\ accepted = <<255, 255>>
    /\ sentErr = NilErr
    /\ bits = BitsIdle
    /\ lastOp = [op |-> "New", index |-> 0, state |-> FALSE, val |-> FALSE,
                 err |-> NilErr, txs |-> <<Tx(<<255, 255>>, <<>>, NilErr)>>,
                 pre |-> <<0, 0>>, dev |-> <<255, 255>>]
    /\ \E i1 \in ConcPins, i2 \in ConcPins, s1 \in BOOLEAN, s2 \in BOOLEAN :
        /\ i1 # i2
        /\ conc = [ConcIdle EXCEPT
                     !.pc = [p \in Callers |-> "call"],
                     !.arg = <<[index |-> i1, state |-> s1],
                               [index |-> i2, state |-> s2]>>]

\* the other caller
Other(p) == CHOOSE q \in Callers : q # p

\* p enters WriteOutput and loads the latch byte of its pin (lines 53-56,
\* right-hand side).
LoadLatch(p) ==
    /\ conc.pc[p] = "call"
    /\ conc' = [conc EXCEPT
                  !.pc[p] = "store",
                  !.tmp[p] = IF conc.arg[p].index < 8 THEN lowPins ELSE highPins,
                  !.overlap = @ \/ conc.pc[Other(p)] \notin {"call", "done"}]
    /\ UNCHANGED <<handle, newErr, lowPins, highPins, txCount, sent, accepted,
                   sentErr, bits, lastOp>>

\* p stores setBit of the byte it loaded (lines 54/56, assignment).
StoreLatch(p) ==
    /\ conc.pc[p] = "store"
    /\ LET a == conc.arg[p] IN
        IF a.index < 8
        THEN /\ lowPins' = setBit(conc.tmp[p], a.index, a.state)
             /\ UNCHANGED highPins
        ELSE /\ highPins' = setBit(conc.tmp[p], a.index - 8, a.state)
             /\ UNCHANGED lowPins
    /\ conc' = [conc EXCEPT !.pc[p] = "readLow"]
    /\ UNCHANGED <<handle, newErr, txCount, sent, accepted, sentErr, bits, lastOp>>

\* p, in updateState, loads d.lowPins for the payload (line 94).
ReadLow(p) ==
    /\ conc.pc[p] = "readLow"
    /\ conc' = [conc EXCEPT !.pc[p] = "readHigh", !.plo[p] = lowPins]
    /\ UNCHANGED <<handle, newErr, lowPins, highPins, txCount, sent, accepted,
                   sentErr, bits, lastOp>>

\* p, in updateState, loads d.highPins for the payload (line 94).
ReadHigh(p) ==
    /\ conc.pc[p] = "readHigh"
    /\ conc' = [conc EXCEPT !.pc[p] = "tx", !.phi[p] = highPins]
    /\ UNCHANGED <<handle, newErr, lowPins, highPins, txCount, sent, accepted,
                   sentErr, bits, lastOp>>

\* p's transaction runs on the bus and WriteOutput returns its error.
Transmit(p) ==
    /\ conc.pc[p] = "tx"
    /\ \E e \in TxOutcomes :
        LET tx == updateState(conc.plo[p], conc.phi[p], e) IN
        /\ Bus(<<tx>>)
        /\ conc' = [conc EXCEPT !.pc[p] = "done", !.err[p] = tx.err]
    /\ UNCHANGED <<handle, newErr, lowPins, highPins, bits, lastOp>>

NextConc ==
    \E p \in Callers :
        \/ LoadLatch(p)
        \/ StoreLatch(p)
        \/ ReadLow(p)
        \/ ReadHigh(p)
        \/ Transmit(p)

SpecConc == InitConc /\ [][NextConc]_vars

(***************************************************************************)
(* The bit helpers on their own: setBit applied to any byte, bit index     *)
(* 0..7 and state.                                                         *)
(***************************************************************************)
InitBits ==
    /\ handle = "none"
    /\ newErr = NilErr
    /\ lowPins = 0
    /\ highPins = 0
    /\ txCount = 0
    /\ sent = <<>>
    /\ accepted = <<255, 255>>
    /\ sentErr = NilErr
    /\ conc = ConcIdle
    /\ lastOp = [op |-> "none", index |-> 0, state |-> FALSE, val |-> FALSE,
                 err |-> NilErr, txs |-> <<>>, pre |-> <<0, 0>>,
                 dev |-> <<255, 255>>]
    /\ \E v \in Byte, i \in 0..7, st \in BOOLEAN :
        bits = [pc |-> "in", v |-> v, i |-> i, s |-> st, out |-> 0]

SetBitStep ==
    /\ bits.pc = "in"
    /\ bits' = [bits EXCEPT !.pc = "set", !.out = setBit(bits.v, bits.i, bits.s)]
    /\ UNCHANGED <<handle, newErr, lowPins, highPins, txCount, sent, accepted,
                   sentErr, conc, lastOp>>

NextBits == SetBitStep

SpecBits == InitBits /\ [][NextBits]_vars

TypeOK ==
    /\ handle \in {"none", "dev", "nil"}
    /\ lowPins \in Byte
    /\ highPins \in Byte
    /\ txCount \in 0..MaxTx
    /\ accepted \in Byte \X Byte


(***************************************************************************)
(* Properties.                                                             *)
(***************************************************************************)
\* The calls that need a *Dev.
DevOps == {"Halt", "WriteOutput", "ReadOutput", "ReadInput"}

\* The shadow latch pair.
Latch == <<lowPins, highPins>>

\* Pin j (0..15) of a latch pair, by arithmetic: bit (j mod 8) of byte (j div 8).
PinOf(pair, j) == BitOf(pair[(j \div 8) + 1], j % 8) = 1

\* Byte v with bit k replaced by state, by arithmetic.
ByteWith(v, k, state) == v - BitOf(v, k) * 2^k + (IF state THEN 2^k ELSE 0)

\* Latch pair with pin index (0..15) replaced by state and nothing else changed.
PairWith(pair, index, state) ==
    IF index < 8
    THEN <<ByteWith(pair[1], index, state), pair[2]>>
    ELSE <<pair[1], ByteWith(pair[2], index - 8, state)>>

\* The last call was WriteOutput with a valid index.
ValidWrite == lastOp.op = "WriteOutput" /\ lastOp.index \in Pins

\* C1: after a successful WriteOutput(index, state) with index in 0..15,
\* ReadOutput(index) returns state and ReadOutput(j) of every other pin j in
\* 0..15 returns what it returned before the write.
C1_LatchRoundTrip ==
    (ValidWrite /\ lastOp.err = NilErr) =>
        /\ ReadOutput(lowPins, highPins, lastOp.index)
             = [val |-> lastOp.state, err |-> NilErr]
        /\ \A j \in Pins \ {lastOp.index} :
             ReadOutput(lowPins, highPins, j)
               = ReadOutput(lastOp.pre[1], lastOp.pre[2], j)

\* A successful write that clears pin 10 while other pins are already low.
C1_Witness ==
    /\ ValidWrite /\ lastOp.err = NilErr
    /\ lastOp.index = 10 /\ lastOp.state = FALSE
    /\ lastOp.pre[1] # 255 /\ lastOp.pre[2] = 127
    /\ Latch # lastOp.pre

\* C2 as stated (I1): on a constructed handle the shadow pair equals the
\* payload of the last write transaction that succeeded, and a call changes the
\* shadow only when its write transaction succeeded.
C2_ShadowIsLastAccepted ==
    handle = "dev" =>
        /\ Latch = accepted
        /\ (Latch # lastOp.pre /\ lastOp.op # "New") =>
               (Len(lastOp.txs) = 1 /\ lastOp.txs[1].err = NilErr)

\* C2 amended: on a constructed handle the shadow pair equals the payload of
\* the last write transaction issued, whether it succeeded or failed; a call
\* that changes the shadow issues a write transaction carrying the new pair.
C2_ShadowIsLastSent ==
    handle = "dev" =>
        /\ Latch = sent
        /\ (Latch # lastOp.pre /\ lastOp.op # "New") =>
               (Len(lastOp.txs) = 1 /\ lastOp.txs[1].w = Latch)

\* A failed write that changed the shadow, which now differs from the chip.
C2_Witness ==
    /\ handle = "dev"
    /\ ValidWrite /\ lastOp.err.kind = "bus"
    /\ Latch # lastOp.pre
    /\ Latch # accepted
    /\ Latch = sent

\* C3: when the write transaction of WriteOutput(index, state), index in
\* 0..15, fails, WriteOutput returns the bus's error and the shadow bit of
\* index equals state afterwards (no rollback).
C3_NoRollback ==
    (ValidWrite /\ Len(lastOp.txs) = 1 /\ lastOp.txs[1].err # NilErr) =>
        /\ lastOp.err = lastOp.txs[1].err
        /\ lastOp.err.kind = "bus"
        /\ ReadOutput(lowPins, highPins, lastOp.index)
             = [val |-> lastOp.state, err |-> NilErr]
        /\ Latch = PairWith(lastOp.pre, lastOp.index, lastOp.state)

\* A failed write of a new value: the shadow shows it, the chip did not take it.
C3_Witness ==
    /\ ValidWrite /\ lastOp.err = BusErr("NACK")
    /\ lastOp.index = 0 /\ lastOp.state = FALSE
    /\ PinOf(lastOp.pre, 0)
    /\ ~PinOf(Latch, 0)
    /\ PinOf(accepted, 0)

\* C4: every WriteOutput(index, state) with index in 0..15 issues exactly one
\* transaction, sending the 2 bytes of the prior latch pair with only pin
\* index set to state and receiving nothing, also when the bit is unchanged.
C4_WriteTransaction ==
    ValidWrite =>
        /\ Len(lastOp.txs) = 1
        /\ lastOp.txs[1].w = PairWith(lastOp.pre, lastOp.index, lastOp.state)
        /\ Len(lastOp.txs[1].w) = 2
        /\ lastOp.txs[1].r = <<>>
        /\ sent = lastOp.txs[1].w

\* A write of the value the pin already has, on a latch pair with low pins.
C4_Witness ==
    /\ ValidWrite
    /\ lastOp.index = 8 /\ lastOp.state = FALSE
    /\ ~PinOf(lastOp.pre, 8)
    /\ Len(lastOp.txs) = 1
    /\ lastOp.txs[1].w = lastOp.pre

\* The call WriteOutput(10, false) on latches (0xFF, 0xFF).
P4Call ==
    /\ lastOp.op = "WriteOutput" /\ lastOp.index = 10 /\ lastOp.state = FALSE
    /\ lastOp.pre = <<255, 255>>

\* C5 as stated (P4): WriteOutput(10, false) on latches (0xFF, 0xFF) issues a
\* write transaction with payload [0xFF, 0xFD].
C5_PayloadFD ==
    P4Call => (Len(lastOp.txs) = 1 /\ lastOp.txs[1].w = <<255, 253>>)

\* C5 amended: WriteOutput(10, false) on latches (0xFF, 0xFF) issues a write
\* transaction with payload [0xFF, 0xFB] (bit 2 of the high byte cleared).
C5_PayloadFB ==
    P4Call => (Len(lastOp.txs) = 1 /\ lastOp.txs[1].w = <<255, 251>>
               /\ lastOp.txs[1].r = <<>>)

\* WriteOutput(10, false) right after construction, accepted by the chip.
C5_Witness ==
    /\ P4Call /\ lastOp.err = NilErr
    /\ accepted = <<255, 251>>

\* C6: ReadInput(index) with index outside 0..15 fails with the range error
\* and issues no bus transaction, whether or not the bus would have failed.
C6_ReadInputRange ==
    (lastOp.op = "ReadInput" /\ lastOp.index \notin Pins) =>
        /\ lastOp.err = RangeErr("PCF8575.ReadInput", lastOp.index)
        /\ lastOp.txs = <<>>

\* C7: WriteOutput(index, state) with index outside 0..15 returns the range
\* error, leaves both latch bytes unchanged and issues no bus transaction.
C7_WriteOutputRange ==
    (lastOp.op = "WriteOutput" /\ lastOp.index \notin Pins) =>
        /\ lastOp.err = RangeErr("PCF8575.WriteOutput", lastOp.index)
        /\ Latch = lastOp.pre
        /\ lastOp.txs = <<>>

\* WriteOutput(16, false) on a latch pair that is not all ones.
C7_Witness ==
    /\ lastOp.op = "WriteOutput" /\ lastOp.index = 16 /\ lastOp.state = FALSE
    /\ lastOp.err.kind = "range"
    /\ Latch # <<255, 255>>

\* C8: right after a successful construction ReadOutput(i) is true for every
\* i in 0..15 and the bus has seen exactly one transaction, a write of
\* [0xFF, 0xFF], so the shadow and the chip's latch are equal.
C8_PowerOnDefault ==
    (lastOp.op = "New" /\ lastOp.err = NilErr) =>
        /\ handle = "dev"
        /\ \A i \in Pins :
             ReadOutput(lowPins, highPins, i) = [val |-> TRUE, err |-> NilErr]
        /\ txCount = 1
        /\ lastOp.txs = <<Tx(<<255, 255>>, <<>>, NilErr)>>
        /\ accepted = Latch

\* The state right after a successful New.
C8_Witness ==
    /\ lastOp.op = "New" /\ lastOp.err = NilErr
    /\ handle = "dev" /\ txCount = 1

\* C9: when the initializing write transaction fails, New returns that error
\* and nil, and nothing is ever called on a *Dev whose initial write failed.
C9_ConstructionFailure ==
    /\ (lastOp.op = "New" /\ Len(lastOp.txs) = 1 /\ lastOp.txs[1].err # NilErr) =>
           (lastOp.err = lastOp.txs[1].err /\ handle = "nil")
    /\ newErr # NilErr => handle = "nil"
    /\ lastOp.op \in DevOps => (handle = "dev" /\ newErr = NilErr)

\* New failed with the bus's error and left no handle.
C9_Witness ==
    /\ lastOp.op = "New" /\ lastOp.err = BusErr("EIO")
    /\ handle = "nil" /\ newErr = BusErr("EIO")
    /\ txCount = 1

\* The last call was ReadInput with a valid index.
ValidRead == lastOp.op = "ReadInput" /\ lastOp.index \in Pins

\* C10: every ReadInput(index) with index in 0..15 issues exactly one
\* transaction that sends nothing and receives 2 bytes, and on success
\* returns bit (index mod 8) of byte (index div 8) of the pair that very
\* transaction delivered; for [0x01, 0x80] pins 0 and 15 read true, pin 1 false.
C10_InputPassThrough ==
    ValidRead =>
        /\ Len(lastOp.txs) = 1
        /\ lastOp.txs[1].w = <<>>
        /\ Len(lastOp.txs[1].r) = 2
        /\ lastOp.txs[1].err = NilErr =>
             /\ lastOp.err = NilErr
             /\ lastOp.val = PinOf(lastOp.txs[1].r, lastOp.index)
             /\ lastOp.txs[1].r = <<1, 128>> =>
                  /\ lastOp.index = 0 => lastOp.val = TRUE
                  /\ lastOp.index = 1 => lastOp.val = FALSE
                  /\ lastOp.index = 15 => lastOp.val = TRUE

\* ReadInput(15) returns true from [0x01, 0x80] while the shadow has pin 15 low.
C10_Witness ==
    /\ ValidRead /\ lastOp.err = NilErr
    /\ lastOp.index = 15 /\ lastOp.val = TRUE
    /\ lastOp.txs[1].r = <<1, 128>>
    /\ ~PinOf(Latch, 15)


\* C11: ReadOutput(index), for any index, issues no bus transaction and leaves
\* both latch bytes (and the chip) unchanged; for index in 0..15 it returns the
\* shadow bit, which is the bit of the last payload WriteOutput sent (also
\* when that write failed); outside 0..15 it returns the range error.
C11_ReadOutputPure ==
    lastOp.op = "ReadOutput" =>
        /\ lastOp.txs = <<>>
        /\ Latch = lastOp.pre
        /\ accepted = lastOp.dev
        /\ lastOp.index \in Pins =>
             /\ lastOp.err = NilErr
             /\ lastOp.val = PinOf(Latch, lastOp.index)
             /\ lastOp.val = PinOf(sent, lastOp.index)
        /\ lastOp.index \notin Pins =>
             /\ lastOp.err = RangeErr("PCF8575.ReadOutput", lastOp.index)
             /\ lastOp.val = FALSE

\* ReadOutput(8) returns the value a failed WriteOutput commanded, which the
\* chip never took.
C11_Witness ==
    /\ lastOp.op = "ReadOutput" /\ lastOp.index = 8
    /\ lastOp.val = FALSE /\ lastOp.err = NilErr
    /\ sentErr # NilErr
    /\ PinOf(accepted, 8)

\* C12: every ReadInput call, for any index and whether its transaction
\* succeeds or fails, leaves both latch bytes unchanged and writes nothing,
\* so the chip's output latch is unchanged too.
C12_ReadInputFrame ==
    lastOp.op = "ReadInput" =>
        /\ Latch = lastOp.pre
        /\ accepted = lastOp.dev
        /\ \A n \in 1..Len(lastOp.txs) : lastOp.txs[n].w = <<>>
        /\ \A j \in Pins :
             ReadOutput(lowPins, highPins, j)
               = ReadOutput(lastOp.pre[1], lastOp.pre[2], j)

\* A failed ReadInput on a latch pair that is not all ones.
C12_Witness ==
    /\ lastOp.op = "ReadInput" /\ lastOp.err.kind = "bus"
    /\ Latch # <<255, 255>>
    /\ accepted = Latch


\* The last call issued no write transaction: ReadOutput, ReadInput, Halt, or
\* a WriteOutput with an index outside 0..15.
NoWriteCall ==
    \/ lastOp.op \in {"ReadOutput", "ReadInput", "Halt"}
    \/ lastOp.op = "WriteOutput" /\ lastOp.index \notin Pins

\* Shadow and chip differed when the last call started.
DivergedBefore == lastOp.pre # lastOp.dev

\* C14 as stated: once the shadow differs from the chip's latch, a later
\* successful WriteOutput of a single pin does not restore equality.
C14_SingleWriteNoResync ==
    (ValidWrite /\ lastOp.err = NilErr /\ DivergedBefore) => Latch # accepted

\* C14 amended: once the shadow differs from the chip's latch, calls that
\* write nothing leave both as they are and a failed WriteOutput leaves the
\* chip as it is, but one successful WriteOutput of any single valid pin
\* restores equality in all sixteen bits.
C14_ResyncOnNextWrite ==
    /\ (ValidWrite /\ lastOp.err = NilErr /\ DivergedBefore) =>
           /\ Latch = accepted
           /\ \A j \in Pins : PinOf(Latch, j) = PinOf(accepted, j)
    /\ (NoWriteCall /\ DivergedBefore) =>
           /\ Latch = lastOp.pre
           /\ accepted = lastOp.dev
           /\ Latch # accepted
    /\ (ValidWrite /\ lastOp.err # NilErr) => accepted = lastOp.dev

\* One successful single-pin write right after a failed one: equal again.
C14_Witness ==
    /\ ValidWrite /\ lastOp.err = NilErr /\ DivergedBefore
    /\ txCount = 3
    /\ Latch = accepted
    /\ Latch # <<255, 255>>

\* C15: Halt returns no error, issues no bus transaction and leaves both
\* latch bytes and the chip unchanged; the handle stays usable: every other
\* call can still be made after it.
C15_HaltNoOp ==
    lastOp.op = "Halt" =>
        /\ lastOp.err = NilErr
        /\ lastOp.txs = <<>>
        /\ Latch = lastOp.pre
        /\ accepted = lastOp.dev
        /\ handle = "dev"
        /\ ENABLED ReadOutputStep
        /\ ENABLED HaltStep
        /\ txCount < MaxTx => (ENABLED WriteOutputStep /\ ENABLED ReadInputStep)

\* Halt on a handle whose latch pair has been changed, bus still usable.
C15_Witness ==
    /\ lastOp.op = "Halt" /\ lastOp.err = NilErr
    /\ Latch # <<255, 255>>
    /\ txCount < MaxTx

\* C16: under serialized calls, whenever the most recent write transaction
\* (of New or WriteOutput) succeeded, the chip's latch equals the shadow pair
\* in all sixteen bits, also in bits an earlier failed WriteOutput changed.
C16_SyncedAfterSuccess ==
    (handle = "dev" /\ sentErr = NilErr) =>
        /\ accepted = Latch
        /\ \A j \in Pins : PinOf(accepted, j) = PinOf(Latch, j)

\* A successful write of one pin carries along another pin that an earlier
\* failed write had changed in the shadow only.
C16_Witness ==
    /\ ValidWrite /\ lastOp.err = NilErr /\ sentErr = NilErr
    /\ \E j \in Pins \ {lastOp.index} :
         /\ PinOf(lastOp.pre, j) # PinOf(lastOp.dev, j)
         /\ PinOf(accepted, j) = PinOf(Latch, j)
         /\ PinOf(accepted, j) # PinOf(lastOp.dev, j)

\* The last call issued a transaction and the bus failed its first one.
BusFailed == Len(lastOp.txs) >= 1 /\ lastOp.txs[1].err # NilErr

\* C17: when the transaction of New, of WriteOutput (valid index) or of
\* ReadInput (valid index) fails, the call has issued exactly one
\* transaction and returns exactly the bus's error; ReadInput returns false.
C17_NoRetryVerbatim ==
    ((lastOp.op = "New" \/ ValidWrite \/ ValidRead) /\ BusFailed) =>
        /\ Len(lastOp.txs) = 1
        /\ lastOp.err = lastOp.txs[1].err
        /\ lastOp.err \in {BusErr(e) : e \in BusErrors}
        /\ lastOp.op = "ReadInput" => lastOp.val = FALSE

\* ReadInput(0) fails with the bus's NACK.
C17_Witness ==
    /\ ValidRead /\ lastOp.index = 0
    /\ lastOp.err = BusErr("NACK")
    /\ lastOp.val = FALSE
    /\ Len(lastOp.txs) = 1


\* Both concurrent WriteOutput calls have returned, and both returned nil.
BothDone ==
    \A p \in Callers : conc.pc[p] = "done" /\ conc.err[p] = NilErr

\* Pin commanded by caller p is in the pair as commanded.
Reflects(pair, p) == PinOf(pair, conc.arg[p].index) = conc.arg[p].state

\* C13: two unserialized WriteOutput calls on different pins, both of whose
\* transactions succeed, can lose an update.  In every state where both have
\* returned nil: pins neither call commanded are untouched, each commanded
\* pin holds the commanded or the old value, and an update is missing from
\* the shadow or from the chip only if the two calls overlapped.
C13_LostUpdateOnlyByOverlap ==
    BothDone =>
        /\ \A j \in Pins \ {conc.arg[p].index : p \in Callers} :
             PinOf(Latch, j) /\ PinOf(accepted, j)
        /\ \A p \in Callers :
             /\ Reflects(Latch, p) \/ PinOf(Latch, conc.arg[p].index)
             /\ Reflects(accepted, p) \/ PinOf(accepted, conc.arg[p].index)
        /\ ~conc.overlap =>
             /\ \A p \in Callers : Reflects(Latch, p) /\ Reflects(accepted, p)
             /\ accepted = Latch

\* Both calls returned nil, yet the shadow lacks one caller's commanded bit
\* and the chip's latch lacks one too.
C13_Witness ==
    /\ BothDone
    /\ conc.overlap
    /\ \E p \in Callers : ~Reflects(Latch, p)
    /\ \E p \in Callers : ~Reflects(accepted, p)

\* C18: for every byte v, bit index i in 0..7 and state s, setBit(v, i, s)
\* is a byte, getBit of it at i is s and at every other j in 0..7 is getBit
\* of v at j, and setBit(v, i, getBit(v, i)) = v.
C18_BitHelpers ==
    bits.pc = "set" =>
        /\ bits.out \in Byte
        /\ getBit(bits.out, bits.i) = bits.s
        /\ \A j \in (0..7) \ {bits.i} :
             /\ getBit(bits.out, j) = getBit(bits.v, j)
             /\ getBit(bits.out, j) = (BitOf(bits.v, j) = 1)
        /\ bits.s = getBit(bits.v, bits.i) => bits.out = bits.v
        /\ setBit(bits.v, bits.i, getBit(bits.v, bits.i)) = bits.v

\* setBit clears bit 7 of 0xA5, giving 0x25.
C18_Witness ==
    /\ bits.pc = "set"
    /\ bits.v = 165 /\ bits.i = 7 /\ bits.s = FALSE
    /\ bits.out = 37

=============================================================================
